---- MODULE Spec2Model ----
(***************************************************************************)
(* Template and instance resolution of the Orchestrate API service.        *)
(*                                                                         *)
(* Strings are sequences of tokens (a token is an atom such as "vfx", "-"  *)
(* or the placeholder "{id}"): concatenation is \o, '-'.join / split('-')  *)
(* work on the "-" token, str.format replaces placeholder tokens.          *)
(***************************************************************************)
EXTENDS Integers, Sequences, FiniteSets, TLC

VARIABLES
  templates,   \* instanceTemplates stored in the project (set of resources)
  instances,   \* instances stored in the project/zone (set of payloads)
  head,        \* version of the image that heads the image family
  last,        \* the last request served and what it did
  created,     \* history: the last CreateTemplate request that returned CREATED
  ops,         \* requests served so far
  threads,     \* the API server's worker threads inside CreateTemplate
  provisioning,\* the image-provisioning function and its instance
  policy       \* IAM policies of the Orchestrate project and bucket

vars == <<templates, instances, head, last, created, ops,
          threads, provisioning, policy>>

----------------------------------------------------------------------------
(* Bounds *)

MaxSizes == 2        \* sizes in one CreateTemplate request
MaxVersion == 2      \* image versions published in the family
MaxOps == 3          \* requests served in one behaviour
MaxMeta == 2         \* entries of a metadata list

----------------------------------------------------------------------------
(* String helpers *)

Dash == "-"
Empty == <<>>

\* s.startswith(p)
StartsWith(s, p) ==
  /\ Len(s) >= Len(p)
  /\ SubSeq(s, 1, Len(p)) = p

\* s.endswith(p)
EndsWith(s, p) ==
  /\ Len(s) >= Len(p)
  /\ SubSeq(s, Len(s) - Len(p) + 1, Len(s)) = p

\* s.split('-'): the list of segments between "-" tokens
RECURSIVE SplitDash(_)
SplitDash(s) ==
  IF \A i \in 1..Len(s) : s[i] # Dash
    THEN <<s>>
    ELSE LET i == CHOOSE j \in 1..Len(s) :
                     /\ s[j] = Dash
                     /\ \A k \in 1..(j - 1) : s[k] # Dash
         IN <<SubSeq(s, 1, i - 1)>> \o SplitDash(SubSeq(s, i + 1, Len(s)))

\* '-'.join(parts)
RECURSIVE JoinDash(_)
JoinDash(parts) ==
  IF Len(parts) = 0 THEN Empty
  ELSE IF Len(parts) = 1 THEN parts[1]
  ELSE parts[1] \o <<Dash>> \o JoinDash(Tail(parts))

\* parts[:2]
FirstTwo(parts) == SubSeq(parts, 1, IF Len(parts) < 2 THEN Len(parts) ELSE 2)

\* '-'.join(zone.split('-')[:2])
RegionOf(zone) == JoinDash(FirstTwo(SplitDash(zone)))

----------------------------------------------------------------------------
(* Python dicts are functions; d.get(k, default) *)

DictGet(d, k, default) == IF k \in DOMAIN d THEN d[k] ELSE default

\* d[k] = v
DictSet(d, k, v) ==
  [x \in (DOMAIN d) \cup {k} |-> IF x = k THEN v ELSE d[x]]

EmptyDict == <<>>

----------------------------------------------------------------------------
(* The environment of the requests *)

Project == <<"orchestrate", "-", "test", "-", "1">>
Zone == <<"us", "-", "west2", "-", "b">>
ImageProject == <<"centos", "-", "cloud">>
ImageFamily == <<"centos", "-", "7">>
Network == <<"default">>
Bucket == <<"orchestrate", "-", "bucket">>

\* acceleratorTypes.list of the zone
AcceleratorTypes == {<<"nvidia", "-", "tesla", "-", "t4", "-", "vws">>,
                     <<"nvidia", "-", "tesla", "-", "t4">>}

ImagesPrefix == <<"https://www.googleapis.com/compute/v1">>

\* The images published in the family, by version.  The second image is a
\* custom one labeled with its base OS.
ImageName(v) == ImageFamily \o <<Dash, "v", ToString(v)>>

ImageLabels(v) ==
  IF v = 2 THEN ("orchestrate_os" :> <<"Windows">>) ELSE <<>>

ImageResource(v) ==
  [name     |-> ImageName(v),
   family   |-> ImageFamily,
   labels   |-> ImageLabels(v),
   selfLink |-> ImagesPrefix \o <<"/projects/">> \o ImageProject
                  \o <<"/global/images/">> \o ImageName(v)]

\* images.getFromFamily: the image that heads the family
GetFromFamily(h) == ImageResource(h)

\* The only image of a family of the project's own that no label and no
\* known prefix classifies
StudioImage ==
  [name     |-> <<"studio", Dash, "v1">>,
   family   |-> <<"studio">>,
   labels   |-> << >>,
   selfLink |-> ImagesPrefix \o <<"/projects/">> \o ImageProject
                  \o <<"/global/images/">> \o <<"studio", Dash, "v1">>]

----------------------------------------------------------------------------
(* Values of a request body before and after JSON serialisation *)

PyBool(b) == [py |-> "bool", v |-> b]
PyInt(n) == [py |-> "int", v |-> n]
PyStr(s) == [py |-> "str", v |-> s]

\* A python bool written in a body that PyWire garbles the way str() would
PyWireStr(x) ==
  CASE x.py = "bool" -> IF x.v THEN <<"True">> ELSE <<"False">>
    [] x.py = "int" -> <<ToString(x.v)>>
    [] OTHER -> x.v

\* The string the catalog stores for a metadata value of the JSON body:
\* True is serialised as the literal true, 2 as 2, a string as itself.
PyWire(x) ==
  CASE x.py = "bool" -> IF x.v THEN <<"true">> ELSE <<"false">>
    [] x.py = "int" -> <<ToString(x.v)>>
    [] OTHER -> x.v

WireItems(items) ==
  [i \in 1..Len(items) |-> [key |-> items[i].key, value |-> PyWire(items[i].value)]]

----------------------------------------------------------------------------
(* templates/create.py *)

\* name = '{name}-{size_name}'
StoredName(templateName, sizeName) == templateName \o <<Dash>> \o sizeName

\* A machine type that leaves the memory in gb
MachineTypeInGb(size) ==
  <<"custom", Dash, ToString(size.cpus), Dash, ToString(size.memory)>>

\* machine_type = 'custom-{cpus}-{memory}', memory in mb
MachineType(size) ==
  <<"custom", Dash, ToString(size.cpus), Dash, ToString(size.memory * 1024)>>

\* size.name == template.default_size_name
IsDefaultSize(template, size) == size.name = template.default_size_name

\* The metadata list of the template payload: the template's own entries
\* first, the orchestrate-specific entries after them.
TemplateMetadata(template, size) ==
  [i \in 1..Len(template.metadata) |->
      [key |-> template.metadata[i].key,
       value |-> PyStr(template.metadata[i].value)]]
  \o << [key |-> <<"orchestrate_", "template">>, value |-> PyBool(TRUE)],
        [key |-> <<"orchestrate_", "default_size">>,
         value |-> PyBool(IsDefaultSize(template, size))],
        [key |-> <<"orchestrate_", "machine_type">>,
         value |-> PyStr(MachineType(size))],
        [key |-> <<"orchestrate_", "gpu_type">>, value |-> PyStr(size.gpu_type)],
        [key |-> <<"orchestrate_", "gpu_count">>, value |-> PyInt(size.gpu_count)],
        [key |-> <<"orchestrate_", "network">>, value |-> PyStr(template.network)] >>
  \o (IF template.instance_name_pattern # Empty
        THEN << [key |-> <<"orchestrate_", "instance_name_pattern">>,
                 value |-> PyStr(template.instance_name_pattern)] >>
        ELSE << >>)

RegionUrl(project, zone) ==
  <<"projects/">> \o project \o <<"/regions/">> \o RegionOf(zone)

ZoneUrl(project, zone) ==
  <<"projects/">> \o project \o <<"/zones/">> \o zone

ExternalNat ==
  << [name |-> "External NAT", type |-> "ONE_TO_ONE_NAT", networkTier |-> "PREMIUM"] >>

\* The body of instanceTemplates.insert for one size; h is the version
\* images.getFromFamily answers with.
BuildTemplatePayload(template, size, h) ==
  [name |-> StoredName(template.name, size.name),
   properties |->
     [metadata |-> [items |-> TemplateMetadata(template, size)],
      tags |-> <<"https-server">>,
      canIpForward |-> TRUE,
      networkInterfaces |->
        << [network |-> <<"projects/">> \o template.project
                          \o <<"/global/networks/">> \o template.network,
            subnetwork |-> RegionUrl(template.project, template.zone)
                          \o <<"/subnetworks/">> \o template.network,
            accessConfigs |-> ExternalNat,
            aliasIpRanges |-> << >>] >>,
      labels |-> EmptyDict,
      scheduling |-> [preemptible |-> FALSE, onHostMaintenance |-> "TERMINATE",
                      automaticRestart |-> TRUE],
      deletionProtection |-> FALSE,
      serviceAccounts |->
        << <<"orchestrate@">> \o template.project \o <<".iam.gserviceaccount.com">> >>,
      machineType |-> <<"n1", Dash, "standard", Dash, "8">>,
      guestAccelerators |->
        IF size.gpu_type # Empty
          THEN << [acceleratorType |-> size.gpu_type,
                   acceleratorCount |-> size.gpu_count] >>
          ELSE << >>,
      disks |->
        << [type |-> "PERSISTENT",
            boot |-> TRUE,
            initializeParams |->
              [sourceImage |-> GetFromFamily(h).selfLink,
               diskType |-> <<"pd", Dash, "standard">>,
               diskSizeGb |-> size.disk_size]] >>]]

\* The resource the catalog stores for an inserted body
StoredTemplate(payload) ==
  [payload EXCEPT !.properties.metadata.items = WireItems(@)]

\* validate_metadata: TRUE when it returns normally
ValidateMetadata(template, size) ==
  size.gpu_type # Empty => size.gpu_type \in AcceleratorTypes

\* The first size (in input order) that fails validation, 0 when all pass
RECURSIVE FirstInvalid(_, _)
FirstInvalid(template, i) ==
  IF i > Len(template.sizes) THEN 0
  ELSE IF ~ValidateMetadata(template, template.sizes[i]) THEN i
  ELSE FirstInvalid(template, i + 1)

NamesOf(cat) == {t.name : t \in cat}

\* A backend failure other than a conflict: the call (1, 2, ...) of the
\* request it strikes and the HTTP status it answers with; NoFault: none.
NoFault == [at |-> 0, status |-> 0]

\* 'A template with name {name} already exists.'
TemplateExistsMessage(name) ==
  <<"A template with name ">> \o name \o <<" already exists.">>

\* An except clause that takes every HttpError for a conflict
CreationRaisedAlwaysDomain(template, cat, called, status) ==
  [templates |-> cat, calls |-> called,
   error |-> "OrchestrateTemplateCreationError: already exists",
   http |-> status, message |-> TemplateExistsMessage(template.name)]

\* An except clause that removes what the request created before it raises
CreationRaisedRolledBack(template, cat, called, status) ==
  [templates |-> {t \in cat : \A j \in 1..Len(called) : t.name # called[j]},
   calls |-> called,
   error |-> IF status = 409
               THEN "OrchestrateTemplateCreationError: already exists"
               ELSE "HttpError",
   http |-> status,
   message |-> IF status = 409 THEN TemplateExistsMessage(template.name) ELSE Empty]

\* What run raises when instanceTemplates.insert answers with the status
CreationRaised(template, cat, called, status) ==
  IF status = 409
    THEN [templates |-> cat, calls |-> called,
          error |-> "OrchestrateTemplateCreationError: already exists",
          http |-> 409, message |-> TemplateExistsMessage(template.name)]
    ELSE [templates |-> cat, calls |-> called, error |-> "HttpError",
          http |-> status, message |-> Empty]

\* The creation loop from size i on.  cat is the catalog so far, calls the
\* insert calls made so far, fault the backend failure of the request.
RECURSIVE CreateSizes(_, _, _, _, _, _)
CreateSizes(template, i, cat, calls, h, fault) ==
  IF i > Len(template.sizes)
    THEN [templates |-> cat, calls |-> calls, error |-> "", http |-> 0,
          message |-> Empty]
    ELSE
      LET payload == BuildTemplatePayload(template, template.sizes[i], h)
          called == Append(calls, payload.name)
      IN IF i = fault.at
           THEN CreationRaised(template, cat, called, fault.status)
         ELSE IF payload.name \in NamesOf(cat)
           THEN CreationRaised(template, cat, called, 409)
         ELSE CreateSizes(template, i + 1, cat \cup {StoredTemplate(payload)},
                          called, h, fault)

\* A run that validates the first size only before it starts creating
RunCreateTemplateFirstOnly(template, cat, h, fault) ==
  IF ~ValidateMetadata(template, template.sizes[1])
    THEN [templates |-> cat, calls |-> << >>,
          error |-> "OrchestrateTemplateCreationError: invalid GPU type", http |-> 0,
          message |-> Empty]
    ELSE CreateSizes(template, 1, cat, << >>, h, fault)

\* run of templates/create.py: validate every size, then create every size
RunCreateTemplate(template, cat, h, fault) ==
  IF FirstInvalid(template, 1) # 0
    THEN [templates |-> cat, calls |-> << >>,
          error |-> "OrchestrateTemplateCreationError: invalid GPU type", http |-> 0,
          message |-> Empty]
    ELSE CreateSizes(template, 1, cat, << >>, h, fault)

----------------------------------------------------------------------------
(* instances/create.py: Metadata *)

ReservedPrefix == "orchestrate_"

\* key.startswith('orchestrate_')
IsReserved(key) == Len(key) > 0 /\ key[1] = ReservedPrefix

\* key.replace('orchestrate_', ''): every occurrence is removed
StripReserved(key) == SelectSeq(key, LAMBDA t : t # ReservedPrefix)

NewMetadata == [instance |-> EmptyDict, instance_payload |-> << >>,
                orchestrate |-> EmptyDict]

\* 1. Get metadata from template.
RECURSIVE ParseTemplateItems(_, _, _)
ParseTemplateItems(metadata, items, i) ==
  IF i > Len(items) THEN metadata
  ELSE LET item == items[i]
           next == IF IsReserved(item.key)
                     THEN [metadata EXCEPT
                             !.orchestrate = DictSet(@, StripReserved(item.key), item.value)]
                     ELSE [metadata EXCEPT
                             !.instance = DictSet(@, item.key, item.value),
                             !.instance_payload = Append(@, item)]
       IN ParseTemplateItems(next, items, i + 1)

\* A second pass that classifies the request's entries as the first pass does
ParseInstanceItemsClassified(metadata, items, i) ==
  ParseTemplateItems(metadata, items, i)

\* 2. Override with metadata explicitly provided upon instance creation.
RECURSIVE ParseInstanceItems(_, _, _)
ParseInstanceItems(metadata, items, i) ==
  IF i > Len(items) THEN metadata
  ELSE LET item == items[i]
           next == [metadata EXCEPT
                      !.instance = DictSet(@, item.key, item.value),
                      !.instance_payload =
                         Append(@, [key |-> item.key, value |-> item.value])]
       IN ParseInstanceItems(next, items, i + 1)

\* Metadata.parse(instance, template)
MetadataParse(instance, template) ==
  ParseInstanceItems(
    ParseTemplateItems(NewMetadata, template.properties.metadata.items, 1),
    instance.metadata, 1)

----------------------------------------------------------------------------
(* instances/create.py: get_os_type, set_startup_script *)

LinuxFamilies == {<<"centos">>, <<"debian">>, <<"rhel">>, <<"sles">>, <<"cos">>,
                  <<"coreos">>, <<"ubuntu">>}

\* str.lower() of a token
LowerToken(t) ==
  CASE t = "Windows" -> "windows"
    [] t = "WINDOWS" -> "windows"
    [] t = "Linux" -> "linux"
    [] t = "Solaris" -> "solaris"
    [] OTHER -> t

Lower(s) == [i \in 1..Len(s) |-> LowerToken(s[i])]

\* A get_os_type that guesses by the family name before it reads the label
GetOsTypeFamilyFirst(image) ==
  LET labels == IF "labels" \in DOMAIN image THEN image.labels ELSE EmptyDict
      os_type == DictGet(labels, "orchestrate_os", Empty)
      family == SplitDash(image.family)[1]
  IN IF family = <<"windows">> THEN [error |-> "", os |-> <<"windows">>]
     ELSE IF family \in LinuxFamilies THEN [error |-> "", os |-> <<"linux">>]
     ELSE IF os_type # Empty THEN [error |-> "", os |-> Lower(os_type)]
     ELSE [error |-> "OrchestrateInstanceCreationError: cannot determine OS",
           os |-> Empty]

\* get_os_type(image): [error, os]
GetOsType(image) ==
  LET labels == IF "labels" \in DOMAIN image THEN image.labels ELSE EmptyDict
      os_type == DictGet(labels, "orchestrate_os", Empty)
      family == SplitDash(image.family)[1]
  IN IF os_type # Empty THEN [error |-> "", os |-> Lower(os_type)]
     ELSE IF "family" \notin DOMAIN image THEN [error |-> "KeyError", os |-> Empty]
     ELSE IF family = <<"windows">> THEN [error |-> "", os |-> <<"windows">>]
     ELSE IF family \in LinuxFamilies THEN [error |-> "", os |-> <<"linux">>]
     ELSE [error |-> "OrchestrateInstanceCreationError: cannot determine OS",
           os |-> Empty]

StartupKey(os) ==
  IF os = <<"windows">> THEN <<"windows", Dash, "startup", Dash, "script", Dash, "url">>
  ELSE <<"startup", Dash, "script", Dash, "url">>

StartupScript(os) ==
  <<"gs://">> \o Bucket \o <<"/remotedesktopconfigure.">>
    \o (IF os = <<"windows">> THEN <<"ps1">> ELSE <<"py">>)

\* set_startup_script that adds the default entry without looking for the key
SetStartupScriptAlways(metadata, os) ==
  [metadata EXCEPT
     !.instance = DictSet(@, StartupKey(os), StartupScript(os)),
     !.instance_payload = Append(@, [key |-> StartupKey(os),
                                     value |-> StartupScript(os)])]

\* set_startup_script(metadata, image) for a classified image
SetStartupScript(metadata, os) ==
  LET key == StartupKey(os)
  IN IF key \notin DOMAIN metadata.instance
       THEN [metadata EXCEPT
               !.instance = DictSet(@, key, StartupScript(os)),
               !.instance_payload = Append(@, [key |-> key, value |-> StartupScript(os)])]
       ELSE metadata

----------------------------------------------------------------------------
(* instances/create.py: build_name *)

DefaultPattern == <<"{template}", Dash, "{size}", Dash, "{id}">>

VwsSuffix == <<Dash, "vws">>

\* The keyword arguments of name_pattern.format(...)
FormatArguments(instance, orchestrate_metadata, unique_id) ==
  LET gpu_count == DictGet(orchestrate_metadata, <<"gpu_count">>, <<"0">>)
      gpu_type == DictGet(orchestrate_metadata, <<"gpu_type">>, Empty)
      graphics_type == IF EndsWith(gpu_type, VwsSuffix) THEN <<"vws">> ELSE <<"gpu">>
      gpu_name == IF ~EndsWith(gpu_type, VwsSuffix) THEN gpu_type
                  ELSE SubSeq(gpu_type, 1, Len(gpu_type) - Len(VwsSuffix))
  IN [f \in {"{template}", "{size}", "{region}", "{zone}", "{type}", "{gpu_name}",
             "{gpu_count}", "{gpu_type}", "{user}", "{id}"} |->
        CASE f = "{template}" -> instance.template
          [] f = "{size}" -> instance.size
          [] f = "{region}" -> RegionOf(instance.zone)
          [] f = "{zone}" -> instance.zone
          [] f = "{type}" -> graphics_type
          [] f = "{gpu_name}" -> gpu_name
          [] f = "{gpu_count}" -> gpu_count
          [] f = "{gpu_type}" -> gpu_type
          [] OTHER -> unique_id]

\* Replacement fields no keyword argument answers to
UnknownFields == {"{project}"}

\* pattern.format(**arguments), for a pattern whose fields are all known
RECURSIVE Format(_, _)
Format(pattern, arguments) ==
  IF pattern = Empty THEN Empty
  ELSE (IF Head(pattern) \in DOMAIN arguments
          THEN arguments[Head(pattern)]
          ELSE <<Head(pattern)>>)
       \o Format(Tail(pattern), arguments)

\* A build_name that prefers the stored pattern to the requested name
NamePatternStoredFirst(instance, orchestrate_metadata) ==
  LET instance_name_pattern ==
        DictGet(orchestrate_metadata, <<"instance_name_pattern">>, Empty)
  IN IF instance_name_pattern # Empty THEN instance_name_pattern
     ELSE IF instance.name # Empty THEN instance.name
     ELSE DefaultPattern

\* name_pattern = instance.name or instance_name_pattern or default_pattern
NamePattern(instance, orchestrate_metadata) ==
  LET instance_name_pattern ==
        DictGet(orchestrate_metadata, <<"instance_name_pattern">>, Empty)
  IN IF instance.name # Empty THEN instance.name
     ELSE IF instance_name_pattern # Empty THEN instance_name_pattern
     ELSE DefaultPattern

\* build_name(instance, orchestrate_metadata): [error, name]
BuildName(instance, orchestrate_metadata, unique_id) ==
  LET name_pattern == NamePattern(instance, orchestrate_metadata)
  IN IF \E i \in 1..Len(name_pattern) : name_pattern[i] \in UnknownFields
       THEN [error |-> "KeyError", name |-> Empty]
       ELSE [error |-> "",
             name |-> Format(name_pattern,
                             FormatArguments(instance, orchestrate_metadata, unique_id))]

----------------------------------------------------------------------------
(* instances/create.py: get_images, get_boot_images, get_template *)

IndicesOf(s, t) == {i \in 1..Len(s) : s[i] = t}

Max(S) == CHOOSE x \in S : \A y \in S : y <= x

\* re.match(r'.*/projects/(?P<project>.*)/global/images/(?P<version>.*)', link)
MatchImageLink(link) ==
  LET images == IndicesOf(link, "/global/images/")
      g == Max(images)
      projects == {i \in IndicesOf(link, "/projects/") : i < g}
      q == Max(projects)
  IN IF images = {} \/ projects = {}
       THEN [matched |-> FALSE, project |-> Empty, version |-> Empty]
       ELSE [matched |-> TRUE,
             project |-> SubSeq(link, q + 1, g - 1),
             version |-> SubSeq(link, g + 1, Len(link))]

\* get_images(parameters): the image of the link and the head of its family
GetImages(parameters, h) ==
  LET m == MatchImageLink(parameters.sourceImage)
      found == {i \in {ImageResource(v) : v \in 1..h} \cup {StudioImage} :
                  m.project = ImageProject /\ m.version = i.name}
  IN IF ~m.matched
       THEN [error |-> "AttributeError", http |-> 0]
     ELSE IF found = {}
       THEN [error |-> "HttpError", http |-> 404]
     ELSE LET image == CHOOSE i \in found : TRUE
          IN [error |-> "", http |-> 0,
              image |-> image,
              latest |-> IF image.family = ImageFamily THEN GetFromFamily(h)
                         ELSE image]

\* get_boot_images(disks)
GetBootImages(disks, h) ==
  LET boots == {i \in 1..Len(disks) : disks[i].boot}
  IN IF boots = {}
       THEN [error |-> "OrchestrateInstanceCreationError: no boot disk", http |-> 0]
       ELSE GetImages(disks[CHOOSE i \in boots : \A j \in boots : i <= j].initializeParams, h)

\* instanceTemplates.list filter 'name = "{template}-*"'
MatchesFilter(name, templateName) ==
  StartsWith(name, templateName \o <<Dash>>)

IsMarkedDefault(template) ==
  \E i \in 1..Len(template.properties.metadata.items) :
     LET item == template.properties.metadata.items[i]
     IN item.key = <<"orchestrate_", "default_size">> /\ item.value = <<"true">>

\* A get_template that takes the first listed template for the default size
GetTemplateFirstListed(instance, cat, listing) ==
  IF instance.size = Empty
    THEN IF Len(listing) = 0
           THEN [error |-> "OrchestrateInstanceCreationError: no default size",
                 http |-> 0]
           ELSE [error |-> "", http |-> 0, template |-> listing[1]]
    ELSE LET name == StoredName(instance.template, instance.size)
         IN IF name \notin NamesOf(cat)
              THEN [error |-> "HttpError", http |-> 404]
              ELSE [error |-> "", http |-> 0,
                    template |-> CHOOSE t \in cat : t.name = name]

\* get_template(instance): listing is the answer of instanceTemplates.list
GetTemplate(instance, cat, listing) ==
  IF instance.size = Empty
    THEN LET marked == {i \in 1..Len(listing) : IsMarkedDefault(listing[i])}
         IN IF marked = {}
              THEN [error |-> "OrchestrateInstanceCreationError: no default size",
                    http |-> 0]
              ELSE [error |-> "", http |-> 0,
                    template |-> listing[CHOOSE i \in marked : \A j \in marked : i <= j]]
    ELSE LET name == StoredName(instance.template, instance.size)
         IN IF name \notin NamesOf(cat)
              THEN [error |-> "HttpError", http |-> 404]
              ELSE [error |-> "", http |-> 0,
                    template |-> CHOOSE t \in cat : t.name = name]

----------------------------------------------------------------------------
(* instances/create.py: build_instance_payload, run *)

KeysToTransfer == {"machineType", "tags", "canIpForward", "networkInterfaces",
                   "labels", "scheduling", "deletionProtection", "serviceAccounts",
                   "guestAccelerators", "disks"}

\* The boot disk takes the head of the family whatever the request says
PayloadDiskAlwaysLatest(disk, instance, zone_url, latest) ==
  [disk EXCEPT
     !.initializeParams.diskType = zone_url \o <<"/diskTypes/">> \o @,
     !.initializeParams.sourceImage = IF disk.boot THEN latest.selfLink ELSE @]

\* One disk of the payload: diskType as a URL, the boot disk's sourceImage
\* replaced by the head of the family when the latest image is requested.
PayloadDisk(disk, instance, zone_url, latest) ==
  [disk EXCEPT
     !.initializeParams.diskType = zone_url \o <<"/diskTypes/">> \o @,
     !.initializeParams.sourceImage =
        IF disk.boot /\ instance.use_latest_image THEN latest.selfLink ELSE @]

\* An interface that keeps the template's access configuration in any case
PayloadInterfaceKeepAll(interface, instance, region_url, network) ==
  [f \in DOMAIN interface |->
     CASE f = "network" -> <<"global/networks/">> \o network
       [] f = "subnetwork" -> region_url \o <<"/subnetworks/">> \o network
       [] OTHER -> interface[f]]

\* One network interface of the payload
PayloadInterface(interface, instance, region_url, network) ==
  LET keep == IF ~instance.use_external_ip
                THEN (DOMAIN interface) \ {"accessConfigs"}
                ELSE DOMAIN interface
  IN [f \in keep |->
        CASE f = "network" -> <<"global/networks/">> \o network
          [] f = "subnetwork" -> region_url \o <<"/subnetworks/">> \o network
          [] OTHER -> interface[f]]

\* The body of instances.insert, for the template resolved, its parsed
\* metadata, the name built, the boot images and the OS of the image used
InstancePayload(instance, template, metadata, built, images, os) ==
  LET properties == template.properties
      region_url == RegionUrl(instance.project, instance.zone)
      zone_url == ZoneUrl(instance.project, instance.zone)
      network == DictGet(metadata.orchestrate, <<"network">>, <<"default">>)
      transferred == KeysToTransfer \cap DOMAIN properties
  IN [k \in {"name", "description", "machineType", "metadata"} \cup transferred |->
        CASE k = "name" -> built.name
          [] k = "description" -> <<instance.template, instance.size>>
          [] k = "machineType" ->
               zone_url \o <<"/machineTypes/">>
                 \o DictGet(metadata.orchestrate, <<"machine_type">>,
                            <<"n1", Dash, "standard", Dash, "8">>)
          [] k = "guestAccelerators" ->
               [i \in 1..Len(properties.guestAccelerators) |->
                  [properties.guestAccelerators[i] EXCEPT
                     !.acceleratorType = zone_url \o <<"/acceleratorTypes/">> \o @]]
          [] k = "disks" ->
               [i \in 1..Len(properties.disks) |->
                  PayloadDisk(properties.disks[i], instance, zone_url,
                              images.latest)]
          [] k = "networkInterfaces" ->
               [i \in 1..Len(properties.networkInterfaces) |->
                  PayloadInterface(properties.networkInterfaces[i], instance,
                                   region_url, network)]
          [] k = "metadata" ->
               [items |-> SetStartupScript(metadata, os.os).instance_payload]
          [] OTHER -> properties[k]]

\* build_instance_payload gives up with the error raised on its way
PayloadError(error, http, resolved) ==
  [error |-> error, http |-> http, resolved |-> resolved, payload |-> EmptyDict]

\* ... from set_startup_script on, os being what get_os_type answered
PayloadOfOs(instance, template, metadata, built, images, os) ==
  IF os.error # ""
    THEN PayloadError(os.error, 0, template.name)
    ELSE [error |-> "", http |-> 0, resolved |-> template.name,
          payload |-> InstancePayload(instance, template, metadata, built,
                                      images, os)]

\* ... from the boot images on, classifying the image the template pins
PayloadOfImagesPinned(instance, template, metadata, built, images) ==
  IF images.error # ""
    THEN PayloadError(images.error, images.http, template.name)
    ELSE PayloadOfOs(instance, template, metadata, built, images,
                     GetOsType(images.image))

\* ... from the boot images on
PayloadOfImages(instance, template, metadata, built, images) ==
  IF images.error # ""
    THEN PayloadError(images.error, images.http, template.name)
    ELSE PayloadOfOs(instance, template, metadata, built, images,
                     GetOsType(IF instance.use_latest_image THEN images.latest
                               ELSE images.image))

\* ... from the name on
PayloadOfName(instance, template, metadata, built, h) ==
  IF built.error # ""
    THEN PayloadError(built.error, 0, template.name)
    ELSE PayloadOfImages(instance, template, metadata, built,
                         GetBootImages(template.properties.disks, h))

\* ... from the parsed metadata on
PayloadOfMetadata(instance, template, metadata, h, unique_id) ==
  PayloadOfName(instance, template, metadata,
                BuildName(instance, metadata.orchestrate, unique_id), h)

\* ... from the answer of get_template on
PayloadOfTemplate(instance, found, h, unique_id) ==
  IF found.error # ""
    THEN PayloadError(found.error, found.http, Empty)
    ELSE PayloadOfMetadata(instance, found.template,
                           MetadataParse(instance, found.template), h, unique_id)

\* build_instance_payload(instance): [error, http, resolved, payload].
\* listing answers instanceTemplates.list, h heads the image family and
\* unique_id is the token uuid4 produces.
BuildInstancePayload(instance, cat, listing, h, unique_id) ==
  PayloadOfTemplate(instance, GetTemplate(instance, cat, listing), h, unique_id)

\* 'An instance with name {name} already exists.'
InstanceExistsMessage(name) ==
  <<"An instance with name ">> \o name \o <<" already exists.">>

\* An insert sent before the error of the payload is looked at
InsertInstanceEager(b, insts, fault) ==
  [instances |-> insts \cup {b.payload}, error |-> b.error, http |-> b.http,
   message |-> Empty, status |-> "", name |-> Empty, resolved |-> b.resolved,
   payload |-> b.payload, calls |-> <<Empty>>]

\* An insert that replaces the stored instance of the same name
InsertInstanceOverwriting(b, insts, fault) ==
  IF b.error # ""
    THEN [instances |-> insts, error |-> b.error, http |-> b.http,
          message |-> Empty,
          status |-> "", name |-> Empty, resolved |-> b.resolved,
          payload |-> EmptyDict, calls |-> << >>]
  ELSE IF fault # 0
    THEN [instances |-> insts, error |-> "HttpError", http |-> fault,
          message |-> Empty,
          status |-> "", name |-> Empty, resolved |-> b.resolved,
          payload |-> b.payload, calls |-> <<b.payload.name>>]
  ELSE [instances |-> {i \in insts : i.name # b.payload.name} \cup {b.payload},
        error |-> "", http |-> 0, message |-> Empty,
        status |-> "SUBMITTED", name |-> b.payload.name,
        resolved |-> b.resolved, payload |-> b.payload,
        calls |-> <<b.payload.name>>]

\* instances.insert of the payload built and what run answers; fault: the
\* HTTP status of a backend failure other than a conflict (0: none).
InsertInstance(b, insts, fault) ==
  IF b.error # ""
    THEN [instances |-> insts, error |-> b.error, http |-> b.http,
          message |-> Empty,
          status |-> "", name |-> Empty, resolved |-> b.resolved,
          payload |-> EmptyDict, calls |-> << >>]
  ELSE IF fault # 0
    THEN [instances |-> insts, error |-> "HttpError", http |-> fault,
          message |-> Empty,
          status |-> "", name |-> Empty, resolved |-> b.resolved,
          payload |-> b.payload, calls |-> <<b.payload.name>>]
  ELSE IF \E i \in insts : i.name = b.payload.name
    THEN [instances |-> insts,
          error |-> "OrchestrateInstanceCreationError: already exists",
          http |-> 409, message |-> InstanceExistsMessage(b.payload.name),
          status |-> "", name |-> Empty,
          resolved |-> b.resolved, payload |-> b.payload,
          calls |-> <<b.payload.name>>]
  ELSE [instances |-> insts \cup {b.payload}, error |-> "", http |-> 0,
        message |-> Empty,
        status |-> "SUBMITTED", name |-> b.payload.name,
        resolved |-> b.resolved, payload |-> b.payload,
        calls |-> <<b.payload.name>>]

\* run of instances/create.py: the instances afterwards, the error raised or
\* the response (status, name), the template resolved, the payload built and
\* the insert calls made.
RunCreateInstance(instance, cat, insts, listing, h, unique_id, fault) ==
  InsertInstance(BuildInstancePayload(instance, cat, listing, h, unique_id),
                 insts, fault)

----------------------------------------------------------------------------
(* Requests *)

Vfx == <<"vfx">>
Small == <<"small">>
Large == <<"large">>
T4Vws == <<"nvidia", Dash, "tesla", Dash, "t4", Dash, "vws">>

TemplateNames == {Vfx}
SizeNames == {Small, Large}

SmallSize == [name |-> Small, cpus |-> 4, memory |-> 16, disk_size |-> 200,
              gpu_type |-> T4Vws, gpu_count |-> 1]
LargeSize == [name |-> Large, cpus |-> 16, memory |-> 64, disk_size |-> 500,
              gpu_type |-> T4Vws, gpu_count |-> 2]
\* a size whose GPU type the zone does not offer
UnavailableSize == [name |-> Large, cpus |-> 16, memory |-> 64, disk_size |-> 500,
                    gpu_type |-> <<"nvidia", Dash, "tesla", Dash, "k80x">>,
                    gpu_count |-> 2]
\* the size the command line builds when no option is given
RegularSize == [name |-> Small, cpus |-> 2, memory |-> 8, disk_size |-> 200,
                gpu_type |-> Empty, gpu_count |-> 1]

Sizes == {SmallSize, LargeSize, UnavailableSize}

SizeListsOf(S) == UNION {[1..n -> S] : n \in 1..MaxSizes}

Key1 == <<"key1">>
Entry(k, v) == [key |-> k, value |-> v]

StoredPattern == <<"{type}", Dash, "{zone}", Dash, "{id}">>

TemplateRequestsOf(names, lists, metadatas, patterns) ==
  [name : names, project : {Project}, zone : {Zone},
   image_project : {ImageProject}, image_family : {ImageFamily},
   network : {Network}, metadata : metadatas, sizes : lists,
   default_size_name : SizeNames, instance_name_pattern : patterns]

InstanceRequestsOf(sizes, names, metadatas, external) ==
  [project : {Project}, zone : {Zone}, template : TemplateNames,
   size : sizes, name : names, metadata : metadatas,
   use_latest_image : BOOLEAN, use_external_ip : external]

\* The requests of the service's life
TemplateRequests ==
  TemplateRequestsOf(TemplateNames, SizeListsOf(Sizes),
                     {<<Entry(Key1, <<"value1">>)>>}, {Empty})

InstanceRequests ==
  InstanceRequestsOf(SizeNames \cup {Empty}, {Empty}, {<< >>}, {FALSE})

UniqueIds == {<<"a1b2c">>}

\* The orders in which instanceTemplates.list may answer with the set S
Listings(S) ==
  {l \in [1..Cardinality(S) -> S] : \A i, j \in 1..Cardinality(S) : l[i] = l[j] => i = j}

----------------------------------------------------------------------------
(* The service *)

NoRequest == [op |-> "none"]
NoTemplate == [name |-> Empty, default_size_name |-> Empty, sizes |-> << >>]

Init ==
  /\ templates = {}
  /\ instances = {}
  /\ head = 1
  /\ last = NoRequest
  /\ created = NoTemplate
  /\ ops = 0
  /\ threads = << >>
  /\ provisioning = [pc |-> "none"]
  /\ policy = [project |-> << >>, bucket |-> << >>]

\* A new image is published in the family
PublishImage ==
  /\ head < MaxVersion
  /\ head' = head + 1
  /\ UNCHANGED <<templates, instances, last, created, ops, threads, provisioning, policy>>

\* Orchestrate.CreateTemplate serving one of the given requests
ServeCreateTemplate(requests, faults) ==
  \E template \in requests, fault \in faults :
    \E r \in {RunCreateTemplate(template, templates, head, fault)} :
       /\ fault.at <= Len(template.sizes)
       /\ templates' = r.templates
       /\ last' = [op |-> "CreateTemplate", req |-> template,
                   status |-> IF r.error = "" THEN "CREATED" ELSE "",
                   error |-> r.error, http |-> r.http, message |-> r.message,
                   calls |-> r.calls, fault |-> fault]
       /\ created' = IF r.error = ""
                       THEN [name |-> template.name,
                             default_size_name |-> template.default_size_name,
                             sizes |-> [i \in 1..Len(template.sizes) |->
                                          template.sizes[i].name]]
                       ELSE created
       /\ UNCHANGED <<instances, head, threads, provisioning, policy>>

\* Orchestrate.CreateInstance serving one of the given requests
ServeCreateInstance(requests, ids, faults) ==
  \E instance \in requests, unique_id \in ids, fault \in faults :
    \E listing \in Listings({t \in templates : MatchesFilter(t.name, instance.template)}) :
      \E r \in {RunCreateInstance(instance, templates, instances, listing, head,
                                   unique_id, fault)} :
         /\ instances' = r.instances
         /\ last' = [op |-> "CreateInstance", req |-> instance,
                     status |-> r.status, name |-> r.name,
                     error |-> r.error, http |-> r.http,
                     message |-> r.message,
                     calls |-> r.calls, resolved |-> r.resolved,
                     payload |-> r.payload,
                     listing |-> [i \in 1..Len(listing) |-> listing[i].name],
                     unique_id |-> unique_id, head |-> head, fault |-> fault]
         /\ UNCHANGED <<templates, head, created, threads, provisioning, policy>>

CreateTemplate ==
  /\ ops < MaxOps
  /\ ops' = ops + 1
  /\ ServeCreateTemplate(TemplateRequests, {NoFault})

CreateInstance ==
  /\ ops < MaxOps
  /\ ops' = ops + 1
  /\ ServeCreateInstance(InstanceRequests, UniqueIds, {0})

Next ==
  \/ CreateTemplate
  \/ CreateInstance
  \/ PublishImage

Spec == Init /\ [][Next]_vars

----------------------------------------------------------------------------
(* One CreateInstance request against one stored template family: the      *)
(* template and the request are drawn from wider sets than in Spec.         *)

StartupUrl == <<"startup", Dash, "script", Dash, "url">>
WindowsStartupUrl == <<"windows", Dash>> \o StartupUrl

Key2 == <<"key2">>

ListsOf(S) == UNION {[1..n -> S] : n \in 0..MaxMeta}

\* lists without a repeated key
DistinctListsOf(S) ==
  {l \in ListsOf(S) : \A i, j \in 1..Len(l) : l[i].key = l[j].key => i = j}

PayloadTemplateEntries ==
  {Entry(Key1, <<"value1">>), Entry(Key2, <<"value2">>),
   Entry(StartupUrl, <<"gs://custom.py">>)}

PayloadInstanceEntries ==
  {Entry(Key1, <<"other">>),
   Entry(StartupUrl, <<"gs://mine.py">>),
   Entry(WindowsStartupUrl, <<"gs://mine.ps1">>),
   Entry(<<"orchestrate_", "machine_type">>, <<"n1", Dash, "mega">>)}

PayloadTemplateRequests ==
  {t \in TemplateRequestsOf(TemplateNames, {<<SmallSize>>, <<RegularSize>>},
                            DistinctListsOf(PayloadTemplateEntries),
                            {Empty, StoredPattern}) :
     t.default_size_name = Small}

PayloadInstanceNames ==
  {Empty, <<"ws1">>, <<"ws", Dash, "{id}">>, <<"{project}", Dash, "ws">>}

PayloadInstanceRequests ==
  InstanceRequestsOf({Empty, Small}, PayloadInstanceNames,
                     DistinctListsOf(PayloadInstanceEntries), BOOLEAN)

InitPayload ==
  /\ templates \in {RunCreateTemplate(t, {}, 1, NoFault).templates :
                      t \in PayloadTemplateRequests}
  /\ instances = {}
  /\ head \in 1..MaxVersion
  /\ last = NoRequest
  /\ created = NoTemplate
  /\ ops = 0
  /\ threads = << >>
  /\ provisioning = [pc |-> "none"]
  /\ policy = [project |-> << >>, bucket |-> << >>]

CreateInstanceOnce ==
  /\ ops = 0
  /\ ops' = 1
  /\ ServeCreateInstance(PayloadInstanceRequests, UniqueIds, {0})

NextPayload == CreateInstanceOnce

SpecPayload == InitPayload /\ [][NextPayload]_vars

----------------------------------------------------------------------------
(* templates/delete.py *)

\* 'Could not find template with name {name}.'
TemplateNotFoundMessage(name) ==
  <<"Could not find template with name ">> \o name \o <<".">>

\* Names that stop at the first template listed
GetInstanceTemplateNamesFirstOnly(listing) ==
  [i \in 1..(IF Len(listing) = 0 THEN 0 ELSE 1) |-> listing[i].name]

\* get_instance_template_names(request): the names instanceTemplates.list
\* answers with for the filter 'name = {name}-*'
GetInstanceTemplateNames(listing) ==
  [i \in 1..Len(listing) |-> listing[i].name]

\* A run that reports every failure of the backend as a missing template
DeletionRaisedAlwaysNotFound(request, cat, called, status) ==
  [templates |-> cat, calls |-> called,
   error |-> "OrchestrateTemplateDeletionError: not found",
   http |-> status, message |-> TemplateNotFoundMessage(request.name),
   status |-> ""]

\* What run raises when instanceTemplates.list or instanceTemplates.delete
\* answers with the status
DeletionRaised(request, cat, called, status) ==
  IF status = 404
    THEN [templates |-> cat, calls |-> called,
          error |-> "OrchestrateTemplateDeletionError: not found",
          http |-> 404, message |-> TemplateNotFoundMessage(request.name),
          status |-> ""]
    ELSE [templates |-> cat, calls |-> called, error |-> "HttpError",
          http |-> status, message |-> Empty, status |-> ""]

\* The deletion loop from name i on.  cat is the catalog so far, calls the
\* delete calls made so far, fault the backend failure of the request.
RECURSIVE DeleteNames(_, _, _, _, _, _)
DeleteNames(request, names, i, cat, calls, fault) ==
  IF i > Len(names)
    THEN [templates |-> cat, calls |-> calls, error |-> "", http |-> 0,
          message |-> Empty, status |-> "DELETED"]
  ELSE IF i = fault.at
    THEN DeletionRaised(request, cat, Append(calls, names[i]), fault.status)
  ELSE IF names[i] \notin NamesOf(cat)
    THEN DeletionRaised(request, cat, Append(calls, names[i]), 404)
  ELSE DeleteNames(request, names, i + 1, {t \in cat : t.name # names[i]},
                   Append(calls, names[i]), fault)

\* run of templates/delete.py: listing answers instanceTemplates.list; a
\* fault at 0 is a failure of the list call itself
RunDeleteTemplate(request, cat, listing, fault) ==
  IF fault.at = 0 /\ fault.status # 0
    THEN DeletionRaised(request, cat, << >>, fault.status)
    ELSE DeleteNames(request, GetInstanceTemplateNames(listing), 1, cat, << >>, fault)

\* Orchestrate.DeleteTemplate serving one of the given requests
ServeDeleteTemplate(requests, faults) ==
  \E request \in requests, fault \in faults :
    \E listing \in Listings({t \in templates : MatchesFilter(t.name, request.name)}) :
      \E r \in {RunDeleteTemplate(request, templates, listing, fault)} :
         /\ fault.at <= Len(listing)
         /\ templates' = r.templates
         /\ last' = [op |-> "DeleteTemplate", req |-> request,
                     status |-> r.status, error |-> r.error, http |-> r.http,
                     message |-> r.message, calls |-> r.calls,
                     listing |-> GetInstanceTemplateNames(listing),
                     fault |-> fault]
         /\ created' = IF r.templates # templates THEN NoTemplate ELSE created
         /\ UNCHANGED <<instances, head, threads, provisioning, policy>>

----------------------------------------------------------------------------
(* The catalog over the service's life: templates created and deleted and   *)
(* instances created while the backend may refuse a call.                   *)

MaxCatalogOps == 3   \* requests served in one behaviour of SpecCatalog

\* The HTTP statuses of the backend's refusals other than a conflict
BackendStatuses == {403, 503}

FaultsAt(n) == {NoFault} \cup [at : 1..n, status : BackendStatuses]

CatalogSizeLists ==
  {<<SmallSize>>, <<LargeSize>>, <<SmallSize, LargeSize>>, <<LargeSize, SmallSize>>,
   <<SmallSize, SmallSize>>}

CatalogTemplateRequests ==
  TemplateRequestsOf(TemplateNames, CatalogSizeLists,
                     {<<Entry(Key1, <<"value1">>)>>}, {Empty})

CatalogInstanceRequests ==
  {i \in InstanceRequests : i.use_latest_image}

DeleteRequests == [name : TemplateNames, project : {Project}]

CatalogCreateTemplate ==
  /\ ops < MaxCatalogOps
  /\ ops' = ops + 1
  /\ ServeCreateTemplate(CatalogTemplateRequests, FaultsAt(MaxSizes))

CatalogCreateInstance ==
  /\ ops < MaxCatalogOps
  /\ ops' = ops + 1
  /\ ServeCreateInstance(CatalogInstanceRequests, UniqueIds, {0} \cup BackendStatuses)

DeleteTemplate ==
  /\ ops < MaxCatalogOps
  /\ ops' = ops + 1
  /\ ServeDeleteTemplate(DeleteRequests, FaultsAt(MaxSizes))

NextCatalog ==
  \/ CatalogCreateTemplate
  \/ CatalogCreateInstance
  \/ DeleteTemplate

SpecCatalog == Init /\ [][NextCatalog]_vars

----------------------------------------------------------------------------
(* get_os_type over the image descriptors an image family may answer with   *)

OsLabelValues ==
  {<<"windows">>, <<"Windows">>, <<"WINDOWS">>, <<"linux">>, <<"Linux">>,
   <<"Solaris">>, Empty}

\* The labels of an image: none, the OS label, another label
ImageLabelSets ==
  {EmptyDict, ("team" :> <<"vfx">>)}
    \cup {("orchestrate_os" :> v) : v \in OsLabelValues}

ImageFamilies ==
  {<<"centos", Dash, "7">>, <<"debian", Dash, "9">>, <<"rhel", Dash, "7">>,
   <<"sles", Dash, "12">>, <<"cos", Dash, "stable">>, <<"coreos", Dash, "stable">>,
   <<"ubuntu", Dash, "1804", Dash, "lts">>, <<"windows", Dash, "2016">>,
   <<"windows">>, <<"Windows", Dash, "2016">>, <<"sql", Dash, "2017">>,
   <<"my", Dash, "centos">>}

\* Image resources, with and without the labels field
ImageDescriptors ==
  [name : {<<"image">>}, family : ImageFamilies, labels : ImageLabelSets,
   selfLink : {ImagesPrefix \o <<"/projects/">> \o ImageProject
                 \o <<"/global/images/", "image">>}]
  \cup [name : {<<"image">>}, family : ImageFamilies,
        selfLink : {ImagesPrefix \o <<"/projects/">> \o ImageProject
                      \o <<"/global/images/", "image">>}]

\* get_os_type applied to one image
ClassifyImage ==
  /\ ops = 0
  /\ ops' = 1
  /\ \E image \in ImageDescriptors :
       \E r \in {GetOsType(image)} :
          last' = [op |-> "get_os_type", image |-> image,
                   error |-> r.error, os |-> r.os]
  /\ UNCHANGED <<templates, instances, head, created, threads, provisioning, policy>>

NextOs == ClassifyImage

SpecOs == Init /\ [][NextOs]_vars

----------------------------------------------------------------------------
(* Properties *)

\* The stored template of the given name
Stored(name) == CHOOSE t \in templates : t.name = name

\* The stored template carries the entry orchestrate_default_size = "true"
CarriesDefault(t) ==
  \E i \in 1..Len(t.properties.metadata.items) :
     t.properties.metadata.items[i] =
       Entry(<<"orchestrate_", "default_size">>, <<"true">>)

\* The size's GPU type is set and the zone does not list it
GpuUnavailable(size) ==
  size.gpu_type # Empty /\ size.gpu_type \notin AcceleratorTypes

\* C1: a CreateTemplate request with a size whose GPU type fails validation
\* makes no instanceTemplates.insert call, for any of its sizes, and leaves
\* the stored templates as they were.
C1_NoInsertUnlessAllValid ==
  [][(/\ ops' = ops + 1
      /\ last'.op = "CreateTemplate"
      /\ \E k \in 1..Len(last'.req.sizes) : GpuUnavailable(last'.req.sizes[k]))
     => (/\ last'.calls = << >>
         /\ last'.status # "CREATED"
         /\ templates' = templates)]_vars

\* C1 witness: the second of two sizes fails validation after the first
\* passed, in a project that already stores templates.
C1_Witness ==
  /\ last.op = "CreateTemplate"
  /\ Len(last.req.sizes) = 2
  /\ ~GpuUnavailable(last.req.sizes[1])
  /\ GpuUnavailable(last.req.sizes[2])
  /\ last.error = "OrchestrateTemplateCreationError: invalid GPU type"
  /\ last.calls = << >>
  /\ templates # {}

\* C2: a CreateInstance without size whose listing holds two stored
\* templates, exactly one of them marked default, resolves to the marked
\* one in either listing order; when no listed template is marked, it fails
\* with the could-not-locate-default-size error.
C2_DefaultSizeSelection ==
  (last.op = "CreateInstance" /\ last.req.size = Empty) =>
    LET marked == {i \in 1..Len(last.listing) : CarriesDefault(Stored(last.listing[i]))}
    IN /\ (Len(last.listing) = 2 /\ Cardinality(marked) = 1)
            => last.resolved = last.listing[CHOOSE i \in marked : TRUE]
       /\ marked = {}
            => /\ last.error = "OrchestrateInstanceCreationError: no default size"
               /\ last.resolved = Empty
               /\ last.calls = << >>

\* C2 witness: the default size is the second of the two listed templates
C2_Witness ==
  /\ last.op = "CreateInstance"
  /\ last.req.size = Empty
  /\ Len(last.listing) = 2
  /\ ~CarriesDefault(Stored(last.listing[1]))
  /\ CarriesDefault(Stored(last.listing[2]))
  /\ last.resolved = last.listing[2]
  /\ last.status = "SUBMITTED"

\* The last CreateTemplate that returned CREATED named one of its sizes as
\* the default, and the last request is a CreateInstance without size for
\* that template.
DefaultOfCreatedRequested ==
  /\ last.op = "CreateInstance"
  /\ last.req.size = Empty
  /\ last.req.template = created.name
  /\ \E i \in 1..Len(created.sizes) : created.sizes[i] = created.default_size_name

\* C3 as stated: after a CreateTemplate that returned CREATED with one of its
\* sizes as default, a CreateInstance without size resolves to
\* {template}-{default_size_name}.
C3_Original ==
  DefaultOfCreatedRequested =>
    last.resolved = StoredName(created.name, created.default_size_name)

\* The part of C3 the code keeps: it does so when no other stored template
\* matching {template}-* is marked default.
C3_DefaultMarkerRecognized ==
  (/\ DefaultOfCreatedRequested
   /\ \A t \in templates :
        (MatchesFilter(t.name, created.name) /\ CarriesDefault(t))
          => t.name = StoredName(created.name, created.default_size_name))
  => last.resolved = StoredName(created.name, created.default_size_name)

\* vfx created with default small, the instance resolves vfx-small
C3_Witness ==
  /\ DefaultOfCreatedRequested
  /\ created.name = Vfx
  /\ created.default_size_name = Small
  /\ last.resolved = <<"vfx", Dash, "small">>
  /\ last.status = "SUBMITTED"

\* The instance-facing entries of a stored template, in stored order
InstanceFacing(t) ==
  SelectSeq(t.properties.metadata.items, LAMBDA item : item.key[1] # "orchestrate_")

\* The value a stored template keeps under the reserved key orchestrate_<k>
ReservedValue(t, k) ==
  LET items == t.properties.metadata.items
      at == {i \in 1..Len(items) : items[i].key = <<"orchestrate_", k>>}
  IN items[CHOOSE i \in at : \A j \in at : j <= i].value

HasReserved(t, k) ==
  \E i \in 1..Len(t.properties.metadata.items) :
     t.properties.metadata.items[i].key = <<"orchestrate_", k>>

\* The requested name with the {id} field filled in
WithId(name, id) == [i \in 1..Len(name) |-> IF name[i] = "{id}" THEN id[1] ELSE name[i]]

\* {type} of a stored template: vws for a virtual workstation GPU
GraphicsType(t) ==
  IF /\ Len(t.properties.guestAccelerators) > 0
     /\ t.properties.guestAccelerators[1].acceleratorType = T4Vws
    THEN <<"vws">> ELSE <<"gpu">>

\* C4: the explicit name of the request is the one used when there is one,
\* also when the template stores a name pattern; the stored pattern is used
\* when there is no explicit name; {template}-{size}-{id} is used when there
\* is neither.
C4_NamePrecedence ==
  (last.op = "CreateInstance" /\ last.error = "") =>
    LET t == Stored(last.resolved)
    IN IF last.req.name # Empty
         THEN last.payload.name = WithId(last.req.name, last.unique_id)
       ELSE IF HasReserved(t, "instance_name_pattern")
         THEN /\ ReservedValue(t, "instance_name_pattern") = StoredPattern
              /\ last.payload.name =
                   GraphicsType(t) \o <<Dash>> \o last.req.zone \o <<Dash>> \o last.unique_id
       ELSE last.payload.name =
              last.req.template \o <<Dash>> \o last.req.size \o <<Dash>> \o last.unique_id

\* C4 witness: an explicit name requested from a template storing a pattern
C4_Witness ==
  /\ last.op = "CreateInstance"
  /\ last.status = "SUBMITTED"
  /\ last.req.name = <<"ws1">>
  /\ HasReserved(Stored(last.resolved), "instance_name_pattern")
  /\ last.payload.name = <<"ws1">>

\* C5: the name of the submitted payload and of the response is the
\* explicit name of the request, character for character.
C5_ExplicitNameVerbatim ==
  (last.op = "CreateInstance" /\ last.status = "SUBMITTED" /\ last.req.name # Empty)
    => (last.payload.name = last.req.name /\ last.name = last.req.name)

\* C6: without explicit name and stored pattern the generated name is
\* {template}-{size}-{token}, size being the size of the resolved template.
C6_DefaultNameCarriesSize ==
  (/\ last.op = "CreateInstance"
   /\ last.status = "SUBMITTED"
   /\ last.req.name = Empty
   /\ ~HasReserved(Stored(last.resolved), "instance_name_pattern"))
  => last.payload.name = last.resolved \o <<Dash>> \o last.unique_id

\* C7: an entry of the request whose key is the key of an instance-facing
\* entry of the template replaces the value at that entry's position, and
\* the key appears nowhere else in the list.
C7_OverrideInPlace ==
  (last.op = "CreateInstance" /\ last.status = "SUBMITTED") =>
    LET stored == InstanceFacing(Stored(last.resolved))
        items == last.payload.metadata.items
        given == last.req.metadata
    IN \A i \in 1..Len(stored) :
         LET at == {j \in 1..Len(given) : given[j].key = stored[i].key}
         IN at # {} =>
              /\ items[i] = given[CHOOSE j \in at : \A k \in at : k <= j]
              /\ \A k \in 1..Len(items) : items[k].key = stored[i].key => k = i

\* C8: the metadata items of the submitted payload hold each key once
C8_PayloadKeysUnique ==
  (last.op = "CreateInstance" /\ last.status = "SUBMITTED") =>
    LET items == last.payload.metadata.items
    IN \A i, j \in 1..Len(items) : items[i].key = items[j].key => i = j

\* C9: entries of the request with an orchestrate_ key leave the reserved
\* group alone: machine type and network of the payload are the stored
\* template's, and the entries reach the instance under their own key.
C9_ReservedGroupFromTemplateOnly ==
  (last.op = "CreateInstance" /\ last.status = "SUBMITTED") =>
    LET t == Stored(last.resolved)
        items == last.payload.metadata.items
        given == last.req.metadata
    IN /\ last.payload.machineType =
            <<"projects/">> \o last.req.project \o <<"/zones/">> \o last.req.zone
              \o <<"/machineTypes/">> \o ReservedValue(t, "machine_type")
       /\ last.payload.networkInterfaces[1].network =
            <<"global/networks/">> \o ReservedValue(t, "network")
       /\ \A j \in 1..Len(given) :
            given[j].key[1] = "orchestrate_"
              => \E i \in 1..Len(items) : items[i] = given[j]

\* C9 witness: the request carries orchestrate_machine_type and the
\* instance still gets the machine type of the size
C9_Witness ==
  /\ last.op = "CreateInstance"
  /\ last.status = "SUBMITTED"
  /\ \E j \in 1..Len(last.req.metadata) :
        last.req.metadata[j] = Entry(<<"orchestrate_", "machine_type">>, <<"n1", Dash, "mega">>)
  /\ ReservedValue(Stored(last.resolved), "machine_type") = <<"custom", Dash, "4", Dash, "16384">>
  /\ \E i \in 1..Len(last.payload.metadata.items) :
        last.payload.metadata.items[i].key = <<"orchestrate_", "machine_type">>

\* C10: the boot disk of the payload takes the head of the image family
\* when the latest image is requested and keeps the template's image
\* otherwise; the other disks keep the template's image.
C10_BootImage ==
  (last.op = "CreateInstance" /\ last.status = "SUBMITTED") =>
    LET stored == Stored(last.resolved).properties.disks
        disks == last.payload.disks
    IN /\ Len(disks) = Len(stored)
       /\ \A i \in 1..Len(stored) :
            disks[i].initializeParams.sourceImage =
              IF stored[i].boot /\ last.req.use_latest_image
                THEN ImagesPrefix \o <<"/projects/">> \o ImageProject
                       \o <<"/global/images/">> \o ImageName(last.head)
                ELSE stored[i].initializeParams.sourceImage

\* The boot disk of the resolved template was pinned to the first image
\* and the request was served after the second one was published
PinnedBeforePublish ==
  /\ last.op = "CreateInstance"
  /\ last.status = "SUBMITTED"
  /\ last.head = 2
  /\ Stored(last.resolved).properties.disks[1].initializeParams.sourceImage
       = ImageResource(1).selfLink

\* C10 witness: the latest image requested from a template pinned earlier
C10_Witness ==
  /\ PinnedBeforePublish
  /\ last.req.use_latest_image
  /\ last.payload.disks[1].initializeParams.sourceImage = ImageResource(2).selfLink

\* C11: an instance submitted from the stored template of a size with cpus c
\* and memory m gb has the machine type
\* projects/{project}/zones/{zone}/machineTypes/custom-{c}-{m*1024}, and the
\* placeholder n1-standard-8 of the template's properties is not in it.
C11_MachineTypeOfSize ==
  (last.op = "CreateInstance" /\ last.status = "SUBMITTED") =>
    /\ \E size \in Sizes :
         /\ last.resolved = last.req.template \o <<Dash>> \o size.name
         /\ last.payload.machineType =
              <<"projects/">> \o last.req.project \o <<"/zones/">> \o last.req.zone
                \o <<"/machineTypes/", "custom", Dash, ToString(size.cpus), Dash,
                     ToString(size.memory * 1024)>>
    /\ \A i \in 1..Len(last.payload.machineType) :
         last.payload.machineType[i] \notin {"n1", "standard"}

\* C11 witness: an instance of the size with 4 cpus and 16 gb is submitted
\* with a machine type that ends in custom-4-16384
C11_Witness ==
  /\ last.op = "CreateInstance"
  /\ last.status = "SUBMITTED"
  /\ last.resolved = <<"vfx", Dash, "small">>
  /\ SubSeq(last.payload.machineType, Len(last.payload.machineType) - 4,
            Len(last.payload.machineType)) = <<"custom", Dash, "4", Dash, "16384">>

\* The image of the last get_os_type carries a non-empty orchestrate_os label
Labeled ==
  /\ last.op = "get_os_type"
  /\ "labels" \in DOMAIN last.image
  /\ "orchestrate_os" \in DOMAIN last.image.labels
  /\ last.image.labels["orchestrate_os"] # Empty

\* C12: for an image with a non-empty orchestrate_os label, get_os_type
\* returns the label in lower case, whatever the family name is.
C12_LabelDecides ==
  Labeled =>
    /\ last.error = ""
    /\ last.image.labels["orchestrate_os"] \in
         {<<"windows">>, <<"Windows">>, <<"WINDOWS">>} => last.os = <<"windows">>
    /\ last.image.labels["orchestrate_os"] \in {<<"linux">>, <<"Linux">>}
         => last.os = <<"linux">>
    /\ last.image.labels["orchestrate_os"] = <<"Solaris">> => last.os = <<"solaris">>

\* C12 witness: an image of the family centos-7 labeled windows is classified
\* as windows
C12_Witness ==
  /\ Labeled
  /\ last.image.labels["orchestrate_os"] = <<"windows">>
  /\ last.image.family = <<"centos", Dash, "7">>
  /\ last.os = <<"windows">>

\* C13: get_os_type returns linux or windows, or fails with the
\* cannot-determine-OS error.
C13_LinuxOrWindows ==
  last.op = "get_os_type" =>
    \/ last.error = "" /\ last.os \in {<<"linux">>, <<"windows">>}
    \/ last.error = "OrchestrateInstanceCreationError: cannot determine OS"

\* The step serves a CreateTemplate request of SpecCatalog
CreateTemplateServed == ops' = ops + 1 /\ last'.op = "CreateTemplate"

\* The name of the stored template of size k of the request served
SizeName(k) == last'.req.name \o <<Dash>> \o last'.req.sizes[k].name

\* The insert of size k of the request served fails: the backend refuses it,
\* or its name is stored already, before the request or by it
InsertFails(k) ==
  \/ last'.fault.at = k
  \/ \E t \in templates : t.name = SizeName(k)
  \/ \E j \in 1..(k - 1) : last'.req.sizes[j].name = last'.req.sizes[k].name

\* The first insert of the request served that fails, 0 when none does
FirstFailure ==
  IF \E k \in 1..Len(last'.req.sizes) : InsertFails(k)
    THEN CHOOSE k \in 1..Len(last'.req.sizes) :
           InsertFails(k) /\ \A j \in 1..(k - 1) : ~InsertFails(j)
    ELSE 0

\* C14: in CreateTemplate, an insert that meets a stored template of its name
\* (a conflict, 409) raises OrchestrateTemplateCreationError with the message
\* that names the template of the request; an insert the backend refuses with
\* another status raises the HttpError of that status.
C14_ConflictTranslated ==
  [][(CreateTemplateServed /\ FirstFailure # 0) =>
       IF last'.fault.at = FirstFailure
         THEN /\ last'.error = "HttpError"
              /\ last'.http = last'.fault.status
              /\ last'.message = Empty
              /\ last'.status # "CREATED"
         ELSE /\ last'.error = "OrchestrateTemplateCreationError: already exists"
              /\ last'.http = 409
              /\ last'.message = <<"A template with name ">> \o last'.req.name
                                   \o <<" already exists.">>
              /\ last'.status # "CREATED"]_vars

\* C14 witness: a conflict on a stored template was translated
C14_Witness ==
  /\ last.op = "CreateTemplate"
  /\ last.fault = NoFault
  /\ last.http = 409
  /\ last.message = <<"A template with name ", "vfx", " already exists.">>

\* C17: CreateTemplate inserts its sizes one at a time in input order; when
\* the insert of size k fails it raises, does not answer CREATED, attempts no
\* insert after k, and the templates of the sizes 1..k-1 stay stored with all
\* those stored before.
C17_NoRollback ==
  [][CreateTemplateServed =>
       LET k == FirstFailure
           n == IF k = 0 THEN Len(last'.req.sizes) ELSE k
           m == IF k = 0 THEN Len(last'.req.sizes) ELSE k - 1
       IN /\ last'.calls = [i \in 1..n |-> SizeName(i)]
          /\ templates \subseteq templates'
          /\ {t.name : t \in templates'} =
               {t.name : t \in templates} \cup {SizeName(i) : i \in 1..m}
          /\ (k = 0) <=> (last'.status = "CREATED")
          /\ (k # 0) <=> (last'.error # "")]_vars

\* C17 witness: the insert of the second size was refused by the backend and
\* the first size is stored
C17_Witness ==
  /\ last.op = "CreateTemplate"
  /\ last.fault.at = 2
  /\ last.error = "HttpError"
  /\ last.calls = <<<<"vfx", Dash, "small">>, <<"vfx", Dash, "large">>>>
  /\ \E t \in templates : t.name = <<"vfx", Dash, "small">>
  /\ \A t \in templates : t.name # <<"vfx", Dash, "large">>

\* The step serves a CreateInstance request
CreateInstanceServed == ops' = ops + 1 /\ last'.op = "CreateInstance"

\* C15: in CreateInstance, an insert that meets a stored instance of the
\* resolved name (a conflict, 409) raises OrchestrateInstanceCreationError
\* with the message that names the instance; no SUBMITTED response is
\* returned and the stored instances stay as they were.
C15_InstanceConflict ==
  [][(/\ CreateInstanceServed
      /\ last'.fault = 0
      /\ last'.payload # EmptyDict
      /\ \E i \in instances : i.name = last'.payload.name)
     => /\ last'.error = "OrchestrateInstanceCreationError: already exists"
        /\ last'.http = 409
        /\ last'.message = <<"An instance with name ">> \o last'.payload.name
                             \o <<" already exists.">>
        /\ last'.status # "SUBMITTED"
        /\ instances' = instances]_vars

\* C15 witness: the insert of an instance met a stored instance of its name
C15_Witness ==
  /\ last.op = "CreateInstance"
  /\ last.http = 409
  /\ \E i \in instances : i.name = last.payload.name
  /\ last.message = <<"An instance with name ">> \o last.payload.name
                      \o <<" already exists.">>

\* C16: a CreateInstance with an explicit size that has no stored template
\* {template}-{size} fails with a domain error, not with the backend's
\* HttpError, and inserts no instance.
C16_NotFoundTranslated ==
  (/\ last.op = "CreateInstance"
   /\ last.req.size # Empty
   /\ \A t \in templates :
        t.name # last.req.template \o <<Dash>> \o last.req.size)
  => /\ last.status # "SUBMITTED"
     /\ last.calls = << >>
     /\ last.error \notin {"", "HttpError"}

\* The stored templates of the family of a template name
Family(name) ==
  {t \in templates :
     /\ Len(t.name) > Len(name) + 1
     /\ SubSeq(t.name, 1, Len(name) + 1) = name \o <<Dash>>}

\* C18: every non-empty family of stored templates holds exactly one
\* template marked as the default size.
C18_OneDefaultPerFamily ==
  \A name \in TemplateNames :
    Family(name) # {} =>
      Cardinality({t \in Family(name) : CarriesDefault(t)}) = 1

\* C19: after a DeleteTemplate that answered DELETED no stored template of
\* the family of its name remains, and a CreateInstance for that template
\* served next fails and inserts nothing.
C19_DeletedFamilyGone ==
  [][/\ (ops' = ops + 1 /\ last'.op = "DeleteTemplate" /\ last'.status = "DELETED")
          => {t \in templates' :
                /\ Len(t.name) > Len(last'.req.name) + 1
                /\ SubSeq(t.name, 1, Len(last'.req.name) + 1)
                     = last'.req.name \o <<Dash>>} = {}
     /\ (/\ last.op = "DeleteTemplate"
         /\ last.status = "DELETED"
         /\ CreateInstanceServed
         /\ last'.req.template = last.req.name)
          => /\ last'.status # "SUBMITTED"
             /\ last'.error # ""
             /\ instances' = instances]_vars

\* C19 witness: a family of two stored templates was deleted
C19_Witness ==
  /\ last.op = "DeleteTemplate"
  /\ last.status = "DELETED"
  /\ Len(last.calls) = 2
  /\ Family(last.req.name) = {}

\* C20: each network interface of a submitted payload carries accessConfigs
\* exactly when the request has use_external_ip.
C20_AccessConfigs ==
  (last.op = "CreateInstance" /\ last.status = "SUBMITTED") =>
    /\ Len(last.payload.networkInterfaces) >= 1
    /\ \A i \in 1..Len(last.payload.networkInterfaces) :
         LET interface == last.payload.networkInterfaces[i]
         IN IF last.req.use_external_ip
              THEN /\ "accessConfigs" \in DOMAIN interface
                   /\ Len(interface.accessConfigs) >= 1
              ELSE "accessConfigs" \notin DOMAIN interface

\* C20 witness: an instance with an external IP is submitted with its access
\* configuration
C20_Witness ==
  /\ last.op = "CreateInstance"
  /\ last.status = "SUBMITTED"
  /\ last.req.use_external_ip
  /\ "accessConfigs" \in DOMAIN last.payload.networkInterfaces[1]

\* The image whose operating system decides the startup script: the head of
\* the family when the latest image is requested, the image the template
\* pins (published first in this specification) otherwise
ScriptImage ==
  ImageResource(IF last.req.use_latest_image THEN last.head ELSE 1)

IsWindows(image) ==
  "orchestrate_os" \in DOMAIN image.labels
    /\ image.labels["orchestrate_os"] = <<"Windows">>

KeysOf(entries) == {entries[i].key : i \in 1..Len(entries)}

\* C21: the startup-script key follows the operating system of the image
\* (windows-startup-script-url for windows, startup-script-url otherwise);
\* when the template's instance-facing metadata or the request's metadata
\* already has the key, the payload carries the supplied entries and no
\* default entry; otherwise exactly one default entry is appended.
C21_StartupScriptDefault ==
  (last.op = "CreateInstance" /\ last.status = "SUBMITTED") =>
    LET windows == IsWindows(ScriptImage)
        key == IF windows THEN WindowsStartupUrl ELSE StartupUrl
        script == <<"gs://">> \o Bucket \o <<"/remotedesktopconfigure.">>
                    \o (IF windows THEN <<"ps1">> ELSE <<"py">>)
        supplied == InstanceFacing(Stored(last.resolved)) \o last.req.metadata
        items == last.payload.metadata.items
    IN IF key \in KeysOf(supplied)
         THEN items = supplied
         ELSE /\ items = Append(supplied, [key |-> key, value |-> script])
              /\ Cardinality({i \in 1..Len(items) : items[i].key = key}) = 1

\* C21 witness: a windows image with the windows key supplied by the request
\* keeps the request's value
C21_Witness ==
  /\ last.op = "CreateInstance"
  /\ last.status = "SUBMITTED"
  /\ IsWindows(ScriptImage)
  /\ WindowsStartupUrl \in KeysOf(last.req.metadata)
  /\ \A i \in 1..Len(last.payload.metadata.items) :
        last.payload.metadata.items[i].key = WindowsStartupUrl
          => last.payload.metadata.items[i].value = <<"gs://mine.ps1">>

----------------------------------------------------------------------------
(* Templates whose user metadata uses reserved keys *)

ReservedTemplateEntries ==
  {Entry(<<"orchestrate_", "template">>, <<"false">>),
   Entry(<<"orchestrate_", "default_size">>, <<"true">>),
   Entry(<<"orchestrate_", "machine_type">>, <<"n1", Dash, "mega">>),
   Entry(<<"orchestrate_", "gpu_type">>, <<"none">>),
   Entry(<<"orchestrate_", "gpu_count">>, <<"8">>),
   Entry(<<"orchestrate_", "network">>, <<"other">>)}

\* The catalog after one CreateTemplate request (remembered in created)
InitReserved ==
  /\ \E t \in TemplateRequestsOf(TemplateNames,
                {<<SmallSize>>, <<SmallSize, LargeSize>>, <<LargeSize, SmallSize>>},
                DistinctListsOf(ReservedTemplateEntries), {Empty}) :
        /\ templates = RunCreateTemplate(t, {}, 1, NoFault).templates
        /\ created = [name |-> t.name, default_size_name |-> t.default_size_name,
                      sizes |-> [i \in 1..Len(t.sizes) |-> t.sizes[i].name]]
  /\ instances = {}
  /\ head \in 1..MaxVersion
  /\ last = NoRequest
  /\ ops = 0
  /\ threads = << >>
  /\ provisioning = [pc |-> "none"]
  /\ policy = [project |-> << >>, bucket |-> << >>]

CreateInstanceReserved ==
  /\ ops = 0
  /\ ops' = 1
  /\ ServeCreateInstance(InstanceRequestsOf({Empty, Small, Large}, {Empty},
                                            {<< >>}, {TRUE}),
                         UniqueIds, {0})

SpecReserved == InitReserved /\ [][CreateInstanceReserved]_vars

\* The size a stored template of the created family was written for
SizeOfStored(name) ==
  IF name[Len(name)] = Small[1] THEN SmallSize ELSE LargeSize

\* C22: user template metadata cannot override an entry the engine writes:
\* the machine type and the network of the payload are the engine's, and a
\* request without a size resolves to the size the engine marked default,
\* whatever reserved keys the user's metadata carries.
C22_ReservedNotOverridden ==
  (last.op = "CreateInstance" /\ last.status = "SUBMITTED") =>
    LET size == SizeOfStored(last.resolved)
    IN /\ last.payload.machineType =
            <<"projects/">> \o last.req.project \o <<"/zones/">> \o last.req.zone
              \o <<"/machineTypes/">> \o MachineType(size)
       /\ last.payload.networkInterfaces[1].network =
            <<"global/networks/">> \o Network
       /\ last.req.size = Empty => size.name = created.default_size_name

----------------------------------------------------------------------------
(* services/image_provisioning_end: the function run when provisioning ends *)

MaxSeconds == 2      \* polls of wait_for_operation before it times out

\* run(image): the compute calls in order, and whether each is waited for
Steps ==
  <<"instances.stop", "images.insert", "instances.setDeletionProtection",
    "instances.delete">>

WaitsNever(k) == FALSE

Waits(k) == k < 4

\* Pub/Sub messages: without data, with a payload lacking the image, and
\* well-formed ones reporting how the provisioning went
ProvisioningMessages ==
  {[kind |-> "nodata"], [kind |-> "noimage"]}
    \cup [kind : {"parameters"}, success : BOOLEAN,
          image : [project : {Project}, zone : {Zone}, name : {<<"mayaimage">>},
                   instance_name : {<<"mayaimage", Dash, "provisioning">>, <<"p1">>},
                   os_type : {<<"Linux">>, <<"Windows">>}]]

\* create_image_from_instance: the payload of images.insert
ImagePayload(image) ==
  [family |-> image.name,
   name |-> image.name \o <<Dash, "{timestamp}">>,
   sourceDisk |-> <<"projects/">> \o image.project \o <<"/zones/">> \o image.zone
                    \o <<"/disks/">> \o image.instance_name,
   labels |-> << ("orchestrate_os" :> Lower(image.os_type)) >>]

\* What the operation of step k does to the project once it is DONE
Completed(p, k) ==
  [p EXCEPT
     !.done = @ \cup {k},
     !.instance.status = IF k = 1 THEN "TERMINATED" ELSE @,
     !.images = IF k = 2 THEN @ \cup {ImagePayload(p.message.image)} ELSE @,
     !.instance.deletionProtection = IF k = 3 THEN FALSE ELSE @]

\* The function ends: it returns True or lets the exception out
Ended(p, pc, error) == [p EXCEPT !.pc = pc, !.error = error]

\* main(message, context) up to the first compute call
Main ==
  /\ provisioning = [pc |-> "none"]
  /\ \E message \in ProvisioningMessages :
       LET p == [pc |-> "call", step |-> 1, elapsed |-> 0, calls |-> << >>,
                 done |-> {}, message |-> message, error |-> "",
                 instance |-> [status |-> "RUNNING", deletionProtection |-> TRUE],
                 images |-> {}]
       IN provisioning' =
            IF message.kind = "nodata" THEN Ended(p, "raised", "RuntimeError")
            ELSE IF message.kind = "noimage" THEN Ended(p, "returned", "KeyError")
            ELSE IF ~message.success
              THEN Ended(p, "returned", "OrchestrateImageProvisioningError")
            ELSE p
  /\ UNCHANGED <<templates, instances, head, last, created, ops, threads, policy>>

\* stop_instance, create_image_from_instance, set_deletion_protection and
\* delete_instance: the compute call of the step, refused or accepted
Call ==
  /\ provisioning.pc = "call"
  /\ \E accepted \in BOOLEAN :
       LET k == provisioning.step
           p == [provisioning EXCEPT !.calls = Append(@, Steps[k])]
       IN provisioning' =
            IF ~accepted THEN Ended(p, "raised", "HttpError")
            ELSE IF Waits(k) THEN [p EXCEPT !.pc = "wait", !.elapsed = 0]
            ELSE IF k < Len(Steps) THEN [p EXCEPT !.step = k + 1]
            ELSE Ended([p EXCEPT !.instance.status = "DELETING"], "returned", "")
  /\ UNCHANGED <<templates, instances, head, last, created, ops, threads, policy>>

\* wait_for_operation: one turn of the polling loop, or its time out
Poll ==
  /\ provisioning.pc = "wait"
  /\ \E response \in {"RUNNING", "DONE", "DONE with error", "HttpError"} :
       LET k == provisioning.step
       IN provisioning' =
            IF provisioning.elapsed >= MaxSeconds
              THEN Ended(provisioning, "raised", "RuntimeError")
            ELSE IF response = "HttpError"
              THEN Ended(provisioning, "raised", "HttpError")
            ELSE IF response = "DONE with error"
              THEN Ended(provisioning, "raised", "RuntimeError")
            ELSE IF response = "DONE"
              THEN [Completed(provisioning, k) EXCEPT !.pc = "call", !.step = k + 1]
            ELSE [provisioning EXCEPT !.elapsed = @ + 1]
  /\ UNCHANGED <<templates, instances, head, last, created, ops, threads, policy>>

NextProvisioning ==
  \/ Main
  \/ Call
  \/ Poll

SpecProvisioning == Init /\ [][NextProvisioning]_vars

\* C23: the function calls stop, image creation, removal of the deletion
\* protection and deletion in this order, each only after the operation of
\* the previous call was DONE without error; when the stop or the image
\* creation fails or times out the protection is not removed and the
\* instance is not deleted; a message reporting success=false makes no
\* compute call.
C23_ProvisioningOrder ==
  provisioning.pc # "none" =>
    LET p == provisioning
        methods == {p.calls[i] : i \in 1..Len(p.calls)}
    IN /\ Len(p.calls) <= Len(Steps)
       /\ \A i \in 1..Len(p.calls) : p.calls[i] = Steps[i]
       /\ \A i \in 2..Len(p.calls) : (i - 1) \in p.done
       /\ (p.pc = "raised" /\ p.step <= 2) =>
            /\ methods \subseteq {Steps[1], Steps[2]}
            /\ p.instance.deletionProtection
            /\ p.instance.status # "DELETING"
       /\ (p.message.kind = "parameters" /\ ~p.message.success) => p.calls = << >>

\* C23 witness: a run that made the four calls and returned
C23_Witness ==
  /\ provisioning.pc = "returned"
  /\ provisioning.error = ""
  /\ provisioning.calls = Steps
  /\ provisioning.done = {1, 2, 3}

----------------------------------------------------------------------------
(* commands/projects/register.py: granting the project's service account *)

MaxMembers == 2         \* members of one binding before registration
MaxRegistrations == 2   \* RegisterProject requests served in one behaviour

RegisteredProjects == {Project, <<"studio", Dash, "2">>}

ServiceAccount(project) ==
  <<"serviceAccount:orchestrate@">> \o project \o <<".iam.gserviceaccount.com">>

\* The role in the Orchestrate project (environ.ORCHESTRATE_PROJECT) and
\* the role on the Orchestrate bucket
ProjectRole == <<"projects/", "orchestrate", Dash, "main", "/roles/orchestrate.project">>
BucketRole == <<"roles/storage.objectViewer">>

\* add_iam_binding sending a policy that holds only the new binding
AddIamBindingAlone(bindings, member, role) ==
  [added |-> TRUE, bindings |-> << [role |-> role, members |-> <<member>>] >>]

\* add_iam_binding(policy, member, role): the bindings and the value returned
AddIamBinding(bindings, member, role) ==
  LET same == {i \in 1..Len(bindings) : bindings[i].role = role}
      first == CHOOSE i \in same : \A j \in same : i <= j
  IN IF same = {}
       THEN [added |-> TRUE,
             bindings |-> Append(bindings, [role |-> role, members |-> <<member>>])]
     ELSE IF \E k \in 1..Len(bindings[first].members) :
                bindings[first].members[k] = member
       THEN [added |-> FALSE, bindings |-> bindings]
     ELSE [added |-> TRUE,
           bindings |-> [bindings EXCEPT ![first].members = Append(@, member)]]

\* add_project_iam_binding / add_storage_iam_binding on the policy read
AddBinding(bindings, member, role, api) ==
  LET r == AddIamBinding(bindings, member, role)
  IN [bindings |-> r.bindings,
      calls |-> <<api \o <<".getIamPolicy">>>>
                  \o (IF r.added THEN <<api \o <<".setIamPolicy">>>> ELSE << >>)]

\* The policies found at the first registration: an owner binding, a
\* binding of the role, or both in either order, each with its members
ProjectPolicies ==
  LET lists == {l \in UNION {[1..n -> {<<"user:joe@doe.com">>}
                                \cup {ServiceAccount(p) : p \in RegisteredProjects}] :
                               n \in 1..MaxMembers} :
                  \A i, j \in 1..Len(l) : l[i] = l[j] => i = j}
      owners == [role : {<<"roles/owner">>}, members : lists]
      granted == [role : {ProjectRole}, members : lists]
  IN {<<o>> : o \in owners} \cup {<<g>> : g \in granted}
       \cup {<<o, g>> : o \in owners, g \in granted}
       \cup {<<g, o>> : o \in owners, g \in granted}

InitPolicy ==
  /\ templates = {}
  /\ instances = {}
  /\ head = 1
  /\ last = NoRequest
  /\ created = NoTemplate
  /\ ops = 0
  /\ threads = << >>
  /\ provisioning = [pc |-> "none"]
  /\ policy \in
       [project : ProjectPolicies,
        bucket : {<< [role |-> <<"roles/storage.legacyBucketOwner">>,
                      members |-> <<<<"user:joe@doe.com">>>>] >>,
                  << [role |-> BucketRole,
                      members |-> <<ServiceAccount(Project)>>] >>}]

\* Orchestrate.RegisterProject
RegisterProject ==
  /\ ops < MaxRegistrations
  /\ ops' = ops + 1
  /\ \E request \in [project : RegisteredProjects] :
       \E p \in {AddBinding(policy.project, ServiceAccount(request.project),
                            ProjectRole, <<"projects">>)},
          b \in {AddBinding(policy.bucket, ServiceAccount(request.project),
                            BucketRole, <<"buckets">>)} :
          /\ policy' = [project |-> p.bindings, bucket |-> b.bindings]
          /\ last' = [op |-> "RegisterProject", req |-> request,
                      status |-> "REGISTERED", calls |-> p.calls \o b.calls,
                      before |-> policy]
  /\ UNCHANGED <<templates, instances, head, created, threads, provisioning>>

SpecPolicy == InitPolicy /\ [][RegisterProject]_vars

\* C24: RegisterProject adds the service account to the role and leaves the
\* other bindings and members as they were; when the account is already
\* bound the policy is unchanged and setIamPolicy is not called, so that
\* registering again changes nothing.
C24_PolicyUpdate ==
  last.op = "RegisterProject" =>
    LET before == last.before.project
        after == policy.project
        member == ServiceAccount(last.req.project)
        roles == {i \in 1..Len(before) : before[i].role = ProjectRole}
        bound == \E i \in roles : \E k \in 1..Len(before[i].members) :
                    before[i].members[k] = member
        set == \E c \in 1..Len(last.calls) : last.calls[c] = <<"projects", ".setIamPolicy">>
    IN /\ IF bound
            THEN after = before /\ ~set
            ELSE /\ set
                 /\ \A i \in 1..Len(before) :
                      after[i] = IF i \in roles
                                   THEN [before[i] EXCEPT !.members = Append(@, member)]
                                   ELSE before[i]
                 /\ IF roles = {}
                      THEN after = Append(before, [role |-> ProjectRole,
                                                   members |-> <<member>>])
                      ELSE Len(after) = Len(before)
       /\ AddIamBinding(after, member, ProjectRole) =
            [added |-> FALSE, bindings |-> after]

\* C24 witness: the account joins a role that already had other members,
\* next to an owner binding
C24_Witness ==
  /\ last.op = "RegisterProject"
  /\ Len(last.before.project) = 2
  /\ Len(policy.project) = 2
  /\ policy.project # last.before.project
  /\ \E c \in 1..Len(last.calls) : last.calls[c] = <<"projects", ".setIamPolicy">>

----------------------------------------------------------------------------
(* Two template families, the name of one beginning with the other's, and   *)
(* templates whose boot disk is missing or boots an unclassified image.     *)

FamilyNames == {Vfx, <<"vfx", Dash, "pro">>}

\* The catalogs CreateTemplate leaves for each family (none, one size, two
\* sizes, one size and a default that is not among them), a vfx-small that
\* boots the studio image and one stored without a boot disk
FamilyCatalogs ==
  LET Made(name, sizes, default) ==
        RunCreateTemplate(
          CHOOSE t \in TemplateRequestsOf({name}, {sizes}, {<< >>}, {Empty}) :
            t.default_size_name = default,
          {}, 1, NoFault).templates
      small == Made(Vfx, <<SmallSize>>, Small)
      vfx == {{}, small, Made(Vfx, <<SmallSize, LargeSize>>, Small),
              Made(Vfx, <<SmallSize>>, Large),
              {[t EXCEPT !.properties.disks[1].initializeParams.sourceImage =
                           StudioImage.selfLink] : t \in small},
              {[t EXCEPT !.properties.disks[1].boot = FALSE] : t \in small}}
      pro == {{}, Made(<<"vfx", Dash, "pro">>, <<SmallSize>>, Small),
              Made(<<"vfx", Dash, "pro">>, <<SmallSize, LargeSize>>, Large)}
  IN {v \cup p : v \in vfx, p \in pro}

InitFamilies ==
  /\ templates \in FamilyCatalogs
  /\ instances = {}
  /\ head = 1
  /\ last = NoRequest
  /\ created = NoTemplate
  /\ ops = 0
  /\ threads = << >>
  /\ provisioning = [pc |-> "none"]
  /\ policy = [project |-> << >>, bucket |-> << >>]

FamilyCreateInstance ==
  /\ ops = 0
  /\ ops' = 1
  /\ ServeCreateInstance(
       [project : {Project}, zone : {Zone}, template : FamilyNames,
        size : {Empty, Small, Large}, name : {Empty}, metadata : {<< >>},
        use_latest_image : BOOLEAN, use_external_ip : {TRUE}],
       UniqueIds, {0, 503})

FamilyDeleteTemplate ==
  /\ ops = 0
  /\ ops' = 1
  /\ ServeDeleteTemplate([name : FamilyNames, project : {Project}],
                         {NoFault} \cup [at : 0..MaxSizes, status : {404, 503}])

NextFamilies ==
  \/ FamilyCreateInstance
  \/ FamilyDeleteTemplate

SpecFamilies == InitFamilies /\ [][NextFamilies]_vars

\* The family a stored template of this specification was created for
FamilyOf(name) ==
  IF StartsWith(name, <<"vfx", Dash, "pro", Dash>>) THEN <<"vfx", Dash, "pro">> ELSE Vfx

DeleteTemplateServed == ops' = ops + 1 /\ last'.op = "DeleteTemplate"

\* C25: DeleteTemplate for a template leaves every stored template of
\* another template in the catalog, also when the other's name begins with
\* the deleted name and a dash.
C25_OtherFamilyKept ==
  [][DeleteTemplateServed =>
       \A t \in templates : FamilyOf(t.name) # last'.req.name => t \in templates']_vars

\* C26: CreateInstance for a template without a size never resolves to a
\* stored template of another template, also when the other's name begins
\* with the requested name and a dash and its template is marked default.
C26_DefaultOfOwnFamily ==
  (last.op = "CreateInstance" /\ last.req.size = Empty /\ last.resolved # Empty)
    => FamilyOf(last.resolved) = last.req.template

\* C27: a CreateInstance that fails before the submission (no stored
\* template, no default size, no boot disk, an image that cannot be
\* classified) makes no instances.insert call and leaves the instances and
\* the stored templates as they were.
C27_FailureLeavesNoTrace ==
  [][(CreateInstanceServed
        /\ \/ last'.error = "OrchestrateInstanceCreationError: no default size"
           \/ last'.error = "OrchestrateInstanceCreationError: no boot disk"
           \/ last'.error = "OrchestrateInstanceCreationError: cannot determine OS"
           \/ last'.error = "HttpError" /\ last'.http = 404 /\ last'.resolved = Empty)
       => /\ last'.calls = << >>
          /\ instances' = instances
          /\ templates' = templates]_vars

\* C27 witness: a request resolved to a stored template without a boot disk
C27_Witness ==
  /\ last.op = "CreateInstance"
  /\ last.error = "OrchestrateInstanceCreationError: no boot disk"
  /\ last.resolved = <<"vfx", Dash, "small">>
  /\ instances = {}

\* The list call of the request was answered (with or without templates)
Listed(request) == ~(request.fault.at = 0 /\ request.fault.status # 0)

BootImage ==
  LET disks == last.payload.disks
      boot == CHOOSE i \in 1..Len(disks) : disks[i].boot
  IN CHOOSE image \in {ImageResource(v) : v \in 1..last.head} :
       image.selfLink = disks[boot].initializeParams.sourceImage

\* C28: the startup-script key is chosen from the image the instance boots
\* from: the payload has an entry under the key of the operating system of
\* the boot disk's sourceImage, and an entry under the other system's key
\* only when the template or the request supplied it.
C28_KeyOfBootImage ==
  (last.op = "CreateInstance" /\ last.status = "SUBMITTED") =>
    LET windows == IsWindows(BootImage)
        key == IF windows THEN WindowsStartupUrl ELSE StartupUrl
        other == IF windows THEN StartupUrl ELSE WindowsStartupUrl
        supplied == InstanceFacing(Stored(last.resolved)) \o last.req.metadata
    IN /\ key \in KeysOf(last.payload.metadata.items)
       /\ other \in KeysOf(last.payload.metadata.items) => other \in KeysOf(supplied)

\* C28 witness: the latest image, a windows one, boots an instance of a
\* template pinned to a linux image, and the windows script is the default
C28_Witness ==
  /\ PinnedBeforePublish
  /\ last.req.use_latest_image
  /\ BootImage = ImageResource(2)
  /\ \E i \in 1..Len(last.payload.metadata.items) :
        last.payload.metadata.items[i] =
          [key |-> WindowsStartupUrl, value |-> StartupScript(<<"windows">>)]

----------------------------------------------------------------------------
(* Two CreateTemplate requests served at once by the server's thread pool,  *)
(* interleaved at the calls to the catalog.                                 *)

\* Requests for one name whose sizes are named small and large, with the
\* parameters of either small size, in either order
RaceRequests ==
  TemplateRequestsOf(TemplateNames,
                     {<<SmallSize, LargeSize>>, <<LargeSize, SmallSize>>,
                      <<RegularSize, LargeSize>>, <<LargeSize, RegularSize>>,
                      <<SmallSize>>, <<RegularSize>>},
                     {<< >>}, {Empty})

\* create_template_size(template, template.sizes[i]) against the catalog cat
InsertSize(template, i, cat, h) ==
  LET payload == BuildTemplatePayload(template, template.sizes[i], h)
  IN IF payload.name \in NamesOf(cat)
       THEN [templates |-> cat,
             error |-> CreationRaised(template, cat, << >>, 409).error]
       ELSE [templates |-> cat \cup {StoredTemplate(payload)}, error |-> ""]

\* Two workers take a request each for the same name and the same size
\* names and validate its sizes
AcceptCreateTemplates ==
  /\ threads = << >>
  /\ \E a, b \in RaceRequests :
       /\ a.name = b.name
       /\ {a.sizes[i].name : i \in 1..Len(a.sizes)}
            = {b.sizes[i].name : i \in 1..Len(b.sizes)}
       /\ FirstInvalid(a, 1) = 0
       /\ FirstInvalid(b, 1) = 0
       /\ threads' = << [req |-> a, i |-> 1, status |-> "", error |-> ""],
                        [req |-> b, i |-> 1, status |-> "", error |-> ""] >>
  /\ UNCHANGED <<templates, instances, head, last, created, ops, provisioning, policy>>

\* A worker creates its next size, and returns after the last one or raises
ThreadInsert ==
  \E k \in 1..Len(threads) :
    /\ threads[k].status = ""
    /\ \E r \in {InsertSize(threads[k].req, threads[k].i, templates, head)} :
         /\ templates' = r.templates
         /\ threads' =
              [threads EXCEPT
                 ![k] = IF r.error # ""
                          THEN [@ EXCEPT !.status = "FAILED", !.error = r.error]
                        ELSE IF @.i = Len(@.req.sizes)
                          THEN [@ EXCEPT !.status = "CREATED"]
                        ELSE [@ EXCEPT !.i = @ + 1]]
    /\ UNCHANGED <<instances, head, last, created, ops, provisioning, policy>>

NextRace ==
  \/ AcceptCreateTemplates
  \/ ThreadInsert

SpecRace == Init /\ [][NextRace]_vars

\* C30: of two concurrent CreateTemplate requests for the same name and the
\* same size names, exactly one returns CREATED, the other fails with the
\* already-exists error, and every stored template carries the parameters
\* of the request that returned CREATED.
C30_OneWinner ==
  (Len(threads) = 2 /\ threads[1].status # "" /\ threads[2].status # "") =>
    \E w \in 1..2 :
      /\ threads[w].status = "CREATED"
      /\ threads[3 - w].status = "FAILED"
      /\ threads[3 - w].error = "OrchestrateTemplateCreationError: already exists"
      /\ templates = RunCreateTemplate(threads[w].req, {}, head, NoFault).templates

====
